---- MODULE Spec2Model ----
(***************************************************************************)
(* json_pp.py: command-line tool that validates a JSON document and writes *)
(* it back pretty-printed or compactly encoded.                            *)
(*                                                                         *)
(* A text is a sequence of lexical tokens (punctuation, whitespace runs,   *)
(* string literals, number literals, the three constants).  A decoded      *)
(* value is a record [t, s, kids]: t is the variant, s the scalar payload, *)
(* kids the ordered members [k, v] of an object or array.                  *)
(***************************************************************************)
EXTENDS Integers, Sequences, FiniteSets, TLC

(***************************************************************************)
(* Lexical layer                                                           *)
(***************************************************************************)
WS == {" ", "\n", "   "}

IntToks == {"1", "2", "3"}

DecToks == {"1.2", "3.4", "3.14159265358979323846", "1E2", "1E+2"}

StrToks == {"\"json\"", "\"obj\"", "\"name\"", "\"list\"", "\"key\"",
            "\"bool\"", "\"a\"", "\"b\"", "\"\\u0061\""}

\* The text of a string literal after unescaping, without its quotes.
StrValue(tok) ==
    CASE tok = "\"json\""    -> "json"
      [] tok = "\"obj\""     -> "obj"
      [] tok = "\"name\""    -> "name"
      [] tok = "\"list\""    -> "list"
      [] tok = "\"key\""     -> "key"
      [] tok = "\"bool\""    -> "bool"
      [] tok = "\"a\""       -> "a"
      [] tok = "\"b\""       -> "b"
      [] tok = "\"\\u0061\"" -> "a"

\* The literal the encoder writes for a string: ASCII letters are not escaped.
StrLiteral(s) ==
    CASE s = "json" -> "\"json\""
      [] s = "obj"  -> "\"obj\""
      [] s = "name" -> "\"name\""
      [] s = "list" -> "\"list\""
      [] s = "key"  -> "\"key\""
      [] s = "bool" -> "\"bool\""
      [] s = "a"    -> "\"a\""
      [] s = "b"    -> "\"b\""

\* str(Decimal(tok)): the exponent is written with its sign, digits are kept.
DecimalStr(tok) == IF tok = "1E2" THEN "1E+2" ELSE tok

Scalar(t, s) == [t |-> t, s |-> s, kids |-> <<>>]

Container(t, kids) == [t |-> t, s |-> "", kids |-> kids]

NoValue == Scalar("none", "")

(***************************************************************************)
(* json.load(infile, object_pairs_hook=OrderedDict, use_decimal=True)      *)
(***************************************************************************)
Fail(msg, at) == [ok |-> FALSE, val |-> NoValue, end |-> at, msg |-> msg]

Done(val, at) == [ok |-> TRUE, val |-> val, end |-> at, msg |-> ""]

At(toks, i) == IF i <= Len(toks) THEN toks[i] ELSE ""

RECURSIVE Offset(_, _)
\* The character offset, from 0, at which token i starts (the length of the
\* text for i = Len(toks) + 1).
Offset(toks, i) == IF i <= 1 THEN 0 ELSE Offset(toks, i - 1) + Len(toks[i - 1])

RECURSIVE LastNewline(_, _)
\* The last newline token before token i, 0 when there is none.
LastNewline(toks, i) ==
    IF i <= 1 THEN 0
    ELSE IF toks[i - 1] = "\n" THEN i - 1 ELSE LastNewline(toks, i - 1)

RECURSIVE Newlines(_, _)
Newlines(toks, i) ==
    IF i <= 1 THEN 0
    ELSE Newlines(toks, i - 1) + (IF toks[i - 1] = "\n" THEN 1 ELSE 0)

\* linecol(doc, pos): on line 1 the column is the offset itself, on later
\* lines the distance from the newline before.
LineCol(toks, i) ==
    LET nl == LastNewline(toks, i) IN
    "line " \o ToString(Newlines(toks, i) + 1) \o " column "
    \o ToString(IF nl = 0 THEN Offset(toks, i)
                ELSE Offset(toks, i) - Offset(toks, nl))

\* errmsg(msg, doc, pos)
ErrMsg(msg, toks, i) ==
    msg \o ": " \o LineCol(toks, i) \o " (char " \o ToString(Offset(toks, i)) \o ")"

\* errmsg(msg, doc, pos, end)
ErrMsgRange(msg, toks, i, j) ==
    msg \o ": " \o LineCol(toks, i) \o " - " \o LineCol(toks, j)
    \o " (char " \o ToString(Offset(toks, i)) \o " - "
    \o ToString(Offset(toks, j)) \o ")"

RECURSIVE SkipWS(_, _)
\* First position at or after i that holds no whitespace.
SkipWS(toks, i) ==
    IF i <= Len(toks) /\ toks[i] \in WS THEN SkipWS(toks, i + 1) ELSE i

RECURSIVE Insert(_, _, _, _)
\* od[k] = v on an ordered dictionary: a key already present keeps its place
\* and takes the new value, a new key goes to the end.
Insert(kids, k, v, i) ==
    IF i > Len(kids) THEN Append(kids, [k |-> k, v |-> v])
    ELSE IF kids[i].k = k THEN [kids EXCEPT ![i] = [k |-> k, v |-> v]]
    ELSE Insert(kids, k, v, i + 1)

RECURSIVE OrderedDict(_, _, _)
\* OrderedDict(pairs): the pairs inserted left to right.
OrderedDict(pairs, i, acc) ==
    IF i > Len(pairs) THEN acc
    ELSE OrderedDict(pairs, i + 1, Insert(acc, pairs[i].k, pairs[i].v, 1))

RECURSIVE ScanOnce(_, _), ParsePairs(_, _, _), ParseItems(_, _, _)

\* One value starting exactly at position i.  A failure with an empty
\* message is the scanner finding no value there: the caller words it.
ScanOnce(toks, i) ==
    LET c == At(toks, i) IN
    CASE c \in StrToks -> Done(Scalar("str", StrValue(c)), i + 1)
      [] c \in IntToks -> Done(Scalar("int", c), i + 1)
      [] c \in DecToks -> Done(Scalar("dec", DecimalStr(c)), i + 1)
      [] c = "null"    -> Done(Scalar("null", ""), i + 1)
      [] c = "true"    -> Done(Scalar("bool", "true"), i + 1)
      [] c = "false"   -> Done(Scalar("bool", "false"), i + 1)
      [] c = "{" ->
            LET j == SkipWS(toks, i + 1) IN
            IF At(toks, j) = "}" THEN Done(Container("obj", <<>>), j + 1)
            ELSE IF At(toks, j) \notin StrToks
            THEN Fail(ErrMsg("Expecting property name", toks, j), j)
            ELSE ParsePairs(toks, j, <<>>)
      [] c = "[" ->
            LET j == SkipWS(toks, i + 1) IN
            IF At(toks, j) = "]" THEN Done(Container("arr", <<>>), j + 1)
            ELSE ParseItems(toks, j, <<>>)
      [] OTHER -> Fail("", i)

\* The value of a member or element at position i.
Member(toks, i) ==
    LET r == ScanOnce(toks, i) IN
    IF ~r.ok /\ r.msg = "" THEN Fail(ErrMsg("Expecting object", toks, i), i) ELSE r

\* The members of an object from the key at position i on; pairs read so far.
ParsePairs(toks, i, pairs) ==
    LET key   == StrValue(toks[i])
        colon == SkipWS(toks, i + 1)
    IN  IF At(toks, colon) # ":"
        THEN Fail(ErrMsg("Expecting : delimiter", toks, colon), colon)
        ELSE LET r == Member(toks, SkipWS(toks, colon + 1)) IN
             IF ~r.ok THEN r
             ELSE LET got == Append(pairs, [k |-> key, v |-> r.val])
                      j   == SkipWS(toks, r.end)
                  IN  IF At(toks, j) = "}"
                      THEN Done(Container("obj", OrderedDict(got, 1, <<>>)), j + 1)
                      ELSE IF At(toks, j) # ","
                      THEN Fail(ErrMsg("Expecting , delimiter", toks, j), j)
                      ELSE LET n == SkipWS(toks, j + 1) IN
                           IF At(toks, n) \notin StrToks
                           THEN Fail(ErrMsg("Expecting property name", toks, n), n)
                           ELSE ParsePairs(toks, n, got)

\* The elements of an array from position i on; items read so far.
ParseItems(toks, i, items) ==
    LET r == Member(toks, i) IN
    IF ~r.ok THEN r
    ELSE LET got == Append(items, [k |-> "", v |-> r.val])
             j   == SkipWS(toks, r.end)
         IN  IF At(toks, j) = "]" THEN Done(Container("arr", got), j + 1)
             ELSE IF At(toks, j) # ","
             THEN Fail(ErrMsg("Expecting , delimiter", toks, j), j)
             ELSE ParseItems(toks, SkipWS(toks, j + 1), got)

\* The whole text as one value: leading and trailing whitespace is skipped,
\* anything else after the value is an error.
Load(toks) ==
    LET r == ScanOnce(toks, SkipWS(toks, 1)) IN
    IF ~r.ok
    THEN IF r.msg = "" THEN Fail("No JSON object could be decoded", r.end) ELSE r
    ELSE IF SkipWS(toks, r.end) <= Len(toks)
    THEN Fail(ErrMsgRange("Extra data", toks, SkipWS(toks, r.end), Len(toks) + 1),
              SkipWS(toks, r.end))
    ELSE r

(***************************************************************************)
(* json.dump(obj, outfile, sort_keys=False, ...)                           *)
(***************************************************************************)
RECURSIVE Indent(_)
Indent(n) == IF n = 0 THEN <<>> ELSE <<"   ">> \o Indent(n - 1)

\* What follows an opening bracket, separates two members, precedes the
\* closing bracket, and separates a key from its value.
Open(compact, lvl)  == IF compact THEN <<>> ELSE <<"\n">> \o Indent(lvl + 1)

ItemSep(compact, lvl) == IF compact THEN <<",">> ELSE <<",", "\n">> \o Indent(lvl + 1)

Close(compact, lvl) == IF compact THEN <<>> ELSE <<"\n">> \o Indent(lvl)

KeySep(compact) == IF compact THEN <<":">> ELSE <<":", " ">>

RECURSIVE Reversed(_)
\* A changed member order: the members last to first.
Reversed(kids) ==
    IF kids = <<>> THEN <<>> ELSE Append(Reversed(Tail(kids)), Head(kids))

\* sort_keys=False: the members of an object are written in insertion order.
KeyOrder(kids) == kids

RECURSIVE Encode(_, _, _), EncodeKids(_, _, _, _, _)

\* The text of a value at nesting level lvl; keys in insertion order.
Encode(v, compact, lvl) ==
    CASE v.t = "str"  -> <<StrLiteral(v.s)>>
      [] v.t = "int"  -> <<v.s>>
      [] v.t = "dec"  -> <<v.s>>
      [] v.t = "bool" -> <<v.s>>
      [] v.t = "null" -> <<"null">>
      [] v.t = "obj"  ->
            IF v.kids = <<>> THEN <<"{", "}">>
            ELSE <<"{">> \o Open(compact, lvl)
                 \o EncodeKids(KeyOrder(v.kids), 1, TRUE, compact, lvl)
                 \o Close(compact, lvl) \o <<"}">>
      [] v.t = "arr"  ->
            IF v.kids = <<>> THEN <<"[", "]">>
            ELSE <<"[">> \o Open(compact, lvl)
                 \o EncodeKids(v.kids, 1, FALSE, compact, lvl)
                 \o Close(compact, lvl) \o <<"]">>

EncodeKids(kids, i, keyed, compact, lvl) ==
    IF i > Len(kids) THEN <<>>
    ELSE (IF i > 1 THEN ItemSep(compact, lvl) ELSE <<>>)
         \o (IF keyed THEN <<StrLiteral(kids[i].k)>> \o KeySep(compact) ELSE <<>>)
         \o Encode(kids[i].v, compact, lvl + 1)
         \o EncodeKids(kids, i + 1, keyed, compact, lvl)

\* json.dump with the options main() passes in each mode.
Dump(v, compact) == Encode(v, compact, 0)

(***************************************************************************)
(* Invocations: the argument list, standard input and the file system      *)
(***************************************************************************)
MaxArgs == 4

ProgName == "json_pp.py"

Args == {"-c", "-p", "-", "a.json", "b.json"}

ArgLists == UNION {[1..n -> Args] : n \in 0..MaxArgs}

T_json == <<"{", "\"json\"", ":", "\"obj\"", "}", "\n">>

T_badkey == <<"{", " ", "1.2", ":", "3.4", "}", "\n">>

T_nested == <<"{", "\"name\"", ":", "null", ",", " ", "\"list\"", ":", "[", "{",
              "\"key\"", ":", "1", ",", "\"bool\"", ":", "false", "}", "]", "}">>

T_dup == <<"{", "\"a\"", ":", "1", ",", "\"b\"", ":", "2", ",",
           "\"\\u0061\"", ":", "3", "}">>

T_pi == <<" ", "3.14159265358979323846">>

T_array == <<"[", "1E2", ",", " ", "true", ",", "[", "]", ",", "{", "}", "]">>

T_comma == <<"[", "1", ",", "]">>

T_extra == <<"1", " ", "2">>

T_empty == <<>>

Texts == {T_json, T_badkey, T_nested, T_dup, T_pi, T_array, T_comma, T_extra, T_empty}

StdinTexts == {T_dup, T_badkey}

Absent == [exists |-> FALSE, data |-> <<>>]

Present(text) == [exists |-> TRUE, data |-> text]

\* Every name an argument can give is a path; only the two .json paths may
\* hold a file when the program starts.
FileSystems ==
    {[f \in Args |-> CASE f = "a.json" -> a [] f = "b.json" -> b [] OTHER -> Absent] :
        a \in {Absent} \cup {Present(t) : t \in Texts},
        b \in {Absent, Present(T_json)}}

Stdin == [std |-> TRUE, path |-> "<stdin>"]

Stdout == [std |-> TRUE, path |-> "<stdout>"]

File(f) == [std |-> FALSE, path |-> f]

Usage == " {-c|-p} [infile [outfile]]"

VARIABLES argv, stdin, fs, fs0, unwritable, pc, compact, infile, outfile, obj,
          opened, closed, writes, stdout, stderr, outcome, status

vars == <<argv, stdin, fs, fs0, unwritable, pc, compact, infile, outfile, obj,
          opened, closed, writes, stdout, stderr, outcome, status>>

Init ==
    /\ argv \in {<<ProgName>> \o a : a \in ArgLists}
    /\ stdin \in StdinTexts
    /\ fs \in FileSystems
    /\ fs0 = fs
    /\ unwritable \in {{}, {"b.json"}}
    /\ pc = "args"
    /\ compact = FALSE
    /\ infile = Stdin
    /\ outfile = Stdout
    /\ obj = NoValue
    /\ opened = {}
    /\ closed = {}
    /\ writes = <<>>
    /\ stdout = <<>>
    /\ stderr = <<>>
    /\ outcome = "running"
    /\ status = 0

\* A changed flag test: only the first argument is looked at.
FirstArgIsCompactFlag(av) == Len(av) > 1 /\ av[2] = "-c"

\* "-c" in sys.argv
HasCompactFlag(av) == \E i \in 1..Len(av) : av[i] = "-c"

\* The branch of the argument-count test that an argument list takes.
Branch(av) ==
    CASE Len(av) = 1 -> "defaults"
      [] Len(av) = 3 -> "infile"
      [] Len(av) = 4 -> "both"
      [] OTHER       -> "usage"

\* sys.argv[-1]
LastArg(av) == av[Len(av)]

\* A changed index: the first argument in place of the second-to-last.
FirstArg(av) == av[2]

\* sys.argv[-2]
SecondLastArg(av) == av[Len(av) - 1]

\* A changed test: no name stands for standard input.
NeverStdin(name) == FALSE

\* fileName != "-" fails: the name stands for standard input.
MeansStdin(name) == name = "-"

\* open(name, 'r'): the file must exist.
CanRead(files, name) == files[name].exists

\* open(name, 'w'): creates the file or truncates it, unless the path cannot
\* be written.
CanWrite(ro, name) == name \notin ro

Truncated(files, name) == [files EXCEPT ![name] = Present(<<>>)]

\* Lines 55-69 as a function of the invocation: the streams chosen, the
\* handles opened, the file system afterwards and how the step ends.
Resolve(av, files, ro) ==
    LET base == [compact |-> Len(av) > 1 /\ HasCompactFlag(av),
                 infile |-> Stdin, outfile |-> Stdout, opened |-> {},
                 fs |-> files, end |-> "go", stderr |-> <<>>]
        last == LastArg(av)
        prev == SecondLastArg(av)
    IN  CASE Branch(av) = "defaults" -> base
          [] Branch(av) = "infile" ->
                IF MeansStdin(last) THEN base
                ELSE IF CanRead(files, last)
                THEN [base EXCEPT !.infile = File(last), !.opened = {"in"}]
                ELSE [base EXCEPT !.end = "oserror",
                                  !.stderr = <<"FileNotFoundError", last>>]
          [] Branch(av) = "both" ->
                IF ~CanRead(files, prev)
                THEN [base EXCEPT !.end = "oserror",
                                  !.stderr = <<"FileNotFoundError", prev>>]
                ELSE IF ~CanWrite(ro, last)
                THEN [base EXCEPT !.infile = File(prev), !.opened = {"in"},
                                  !.end = "oserror",
                                  !.stderr = <<"PermissionError", last>>]
                ELSE [base EXCEPT !.infile = File(prev), !.outfile = File(last),
                                  !.opened = {"in", "out"},
                                  !.fs = Truncated(files, last)]
          [] Branch(av) = "usage" ->
                [base EXCEPT !.end = "usage", !.stderr = <<av[1] \o Usage>>]

\* main(), lines 55-69: flag, streams, or an early exit.
ParseArgs ==
    /\ pc = "args"
    /\ LET r == Resolve(argv, fs, unwritable) IN
        /\ compact' = r.compact
        /\ infile' = r.infile
        /\ outfile' = r.outfile
        /\ opened' = r.opened
        /\ fs' = r.fs
        /\ stderr' = r.stderr
        /\ pc' = IF r.end = "go" THEN "load" ELSE "exit"
        /\ outcome' = IF r.end = "go" THEN "running" ELSE r.end
        /\ status' = IF r.end = "go" THEN 0 ELSE 1
    /\ UNCHANGED <<argv, stdin, fs0, unwritable, obj, closed, writes, stdout>>

\* What infile.read() returns.
Contents(h, files, in) == IF h.std THEN in ELSE files[h.path].data

\* outfile.write(chunk)
Write(chunk) ==
    /\ writes' = Append(writes, chunk)
    /\ IF outfile.std
       THEN stdout' = stdout \o chunk /\ fs' = fs
       ELSE fs' = [fs EXCEPT ![outfile.path].data = @ \o chunk] /\ stdout' = stdout

\* A changed decode step: the text read before the error is echoed to outfile.
LoadInputEchoing ==
    /\ pc = "load"
    /\ LET text == Contents(infile, fs, stdin)
           r    == Load(text)
       IN
        /\ closed' = closed \cup {"in"}
        /\ obj' = r.val
        /\ stderr' = IF r.ok THEN stderr ELSE <<r.msg>>
        /\ pc' = IF r.ok THEN "dump" ELSE "exit"
        /\ outcome' = IF r.ok THEN "running" ELSE "validation"
        /\ status' = IF r.ok THEN 0 ELSE 1
        /\ IF r.ok THEN UNCHANGED <<fs, writes, stdout>>
           ELSE Write(SubSeq(text, 1, r.end - 1))
    /\ UNCHANGED <<argv, stdin, fs0, unwritable, compact, infile, outfile, opened>>

\* main(), lines 71-77: decode the whole input; the with block closes infile
\* whether or not decoding raised.
LoadInput ==
    /\ pc = "load"
    /\ LET r == Load(Contents(infile, fs, stdin)) IN
        /\ closed' = closed \cup {"in"}
        /\ obj' = r.val
        /\ stderr' = IF r.ok THEN stderr ELSE <<r.msg>>
        /\ pc' = IF r.ok THEN "dump" ELSE "exit"
        /\ outcome' = IF r.ok THEN "running" ELSE "validation"
        /\ status' = IF r.ok THEN 0 ELSE 1
    /\ UNCHANGED <<argv, stdin, fs, fs0, unwritable, compact, infile, outfile,
                   opened, writes, stdout>>

\* main(), lines 80-85: encode in the selected mode.
DumpOutput ==
    /\ pc = "dump"
    /\ Write(Dump(obj, compact))
    /\ pc' = "newline"
    /\ UNCHANGED <<argv, stdin, fs0, unwritable, compact, infile, outfile, obj,
                   opened, closed, stderr, outcome, status>>

\* A changed last step: the newline is left out.
SkipNewline ==
    /\ pc = "newline"
    /\ pc' = "close"
    /\ UNCHANGED <<argv, stdin, fs, fs0, unwritable, compact, infile, outfile, obj,
                   opened, closed, writes, stdout, stderr, outcome, status>>

\* main(), line 87
WriteNewline ==
    /\ pc = "newline"
    /\ Write(<<"\n">>)
    /\ pc' = "close"
    /\ UNCHANGED <<argv, stdin, fs0, unwritable, compact, infile, outfile, obj,
                   opened, closed, stderr, outcome, status>>

\* End of the with outfile block and of main(): the interpreter exits 0.
CloseOutput ==
    /\ pc = "close"
    /\ closed' = closed \cup {"out"}
    /\ outcome' = "ok"
    /\ status' = 0
    /\ pc' = "exit"
    /\ UNCHANGED <<argv, stdin, fs, fs0, unwritable, compact, infile, outfile, obj,
                   opened, writes, stdout, stderr>>

Next == ParseArgs \/ LoadInput \/ DumpOutput \/ WriteNewline \/ CloseOutput

Spec == Init /\ [][Next]_vars

(***************************************************************************)
(* Properties                                                              *)
(***************************************************************************)
Flags == {"-c", "-p"}

\* The stream a filename argument stands for.
InputOf(f) == IF f = "-" THEN Stdin ELSE File(f)

\* What the output stream holds.
Output == IF outfile.std THEN stdout ELSE fs[outfile.path].data

\* The output of a successful run on a text in a mode.
Expected(text, c) == Dump(Load(text).val, c) \o <<"\n">>

\* An argument after the program name equals -c.
CompactRequested == \E i \in 2..Len(argv) : argv[i] = "-c"

\* The number of arguments after the program name that are no flag.
Positionals == Cardinality({i \in 2..Len(argv) : argv[i] \notin Flags})

\* C1: with the single argument -c, main() opens no file, reads standard
\* input, writes the compact encoding to standard output and exits 0; it
\* does not end in the usage error.
C1_CompactFromStdin ==
    (argv = <<ProgName, "-c">> /\ pc = "exit") =>
        /\ outcome # "usage"
        /\ opened = {}
        /\ Load(stdin).ok =>
              (outcome = "ok" /\ status = 0 /\ stdout = Expected(stdin, TRUE))

\* The one-filename behaviour: input from the file f, or from standard input
\* with no file opened when f is "-"; output on standard output.
ReadsToStdout(f) ==
    LET openable == f = "-" \/ CanRead(fs0, f)
        text     == Contents(InputOf(f), fs0, stdin)
    IN  /\ outcome # "usage"
        /\ outfile = Stdout
        /\ "out" \notin opened
        /\ fs = fs0
        /\ openable =>
              /\ outcome # "oserror"
              /\ infile = InputOf(f)
              /\ opened = (IF f = "-" THEN {} ELSE {"in"})
        /\ (pc = "exit" /\ openable /\ Load(text).ok) =>
              (outcome = "ok" /\ stdout = Expected(text, compact))

\* C2 as stated: prog [-c] infile, with or without the -c, reads infile (or
\* standard input for "-") and writes the result to standard output.
C2_Original ==
    (/\ pc # "args"
     /\ \/ Len(argv) = 2 /\ argv[2] \notin Flags
        \/ Len(argv) = 3 /\ argv[2] = "-c" /\ argv[3] \notin Flags)
    => ReadsToStdout(argv[Len(argv)])

\* C2 amended: prog {-c|-p} infile, a flag followed by one filename, reads
\* infile (or standard input, opening nothing, for "-") and writes the result
\* to standard output; a single argument after the program name, filename or
\* flag, ends in the usage error.
C2_FlagThenInfile ==
    /\ (pc # "args" /\ Len(argv) = 3 /\ argv[2] \in Flags) => ReadsToStdout(argv[3])
    /\ (pc # "args" /\ Len(argv) = 2) => (outcome = "usage" /\ opened = {})

C2_Witness ==
    /\ argv = <<ProgName, "-p", "a.json">>
    /\ pc = "exit" /\ outcome = "ok"
    /\ infile = File("a.json")
    /\ stdout = Expected(T_nested, FALSE)

\* The two-filename behaviour: fin opened for reading, fout for writing, and
\* the result in fout, nothing on standard output.
ReadsToFile(fin, fout) ==
    LET openable == CanRead(fs0, fin) /\ CanWrite(unwritable, fout)
        text     == IF fin = fout THEN <<>> ELSE fs0[fin].data
    IN  /\ outcome # "usage"
        /\ stdout = <<>>
        /\ openable =>
              /\ outcome # "oserror"
              /\ infile = File(fin)
              /\ outfile = File(fout)
              /\ opened = {"in", "out"}
        /\ (pc = "exit" /\ openable /\ Load(text).ok) =>
              (outcome = "ok" /\ fs[fout].data = Expected(text, compact))

\* C3 as stated: prog [-c] infile outfile, with or without the -c, reads
\* infile and writes the result to outfile, not to standard output.
C3_Original ==
    (/\ pc # "args"
     /\ \/ Len(argv) = 3 /\ argv[2] \notin Flags /\ argv[3] \notin Flags
        \/ Len(argv) = 4 /\ argv[2] = "-c" /\ argv[3] \notin Flags
                         /\ argv[4] \notin Flags)
    => ReadsToFile(argv[Len(argv) - 1], argv[Len(argv)])

\* C3 amended: prog {-c|-p} infile outfile, a flag followed by two filenames,
\* opens infile for reading and outfile for writing (when both can be opened)
\* and writes the result to outfile, not to standard output; two filenames
\* with no flag before them leave the output on standard output.
C3_FlagThenBoth ==
    /\ (pc # "args" /\ Len(argv) = 4 /\ argv[2] \in Flags)
          => ReadsToFile(argv[3], argv[4])
    /\ (pc # "args" /\ Len(argv) = 3) => (outfile = Stdout /\ "out" \notin opened)

C3_Witness ==
    /\ argv = <<ProgName, "-c", "a.json", "b.json">>
    /\ pc = "exit" /\ outcome = "ok"
    /\ fs0["b.json"] = Absent
    /\ fs["b.json"].data = Expected(T_nested, TRUE)
    /\ stdout = <<>>

\* C4: when the input is not well-formed JSON the process ends in the
\* validation error (diagnostic on standard error, non-zero status) and the
\* output path is as it was at the start: not created, truncated or written.
C4_OutputPathUntouched ==
    (/\ pc = "exit"
     /\ "in" \in closed
     /\ ~Load(Contents(infile, fs0, stdin)).ok)
    => /\ outcome = "validation"
       /\ status # 0
       /\ stderr # <<>>
       /\ fs = fs0

\* C5: on every exit path every file handle main() opened has been closed by
\* main().
C5_OpenedHandlesClosed == pc = "exit" => opened \subseteq closed

\* C6: more than two positional arguments end in the usage error: the usage
\* message on standard error, a non-zero status, no file opened and no stream
\* read or written.
C6_TooManyPositionals ==
    (pc = "exit" /\ Positionals > 2) =>
        /\ outcome = "usage"
        /\ stderr = <<argv[1] \o Usage>>
        /\ status # 0
        /\ opened = {} /\ closed = {} /\ writes = <<>>
        /\ fs = fs0

\* C7: once the encoding step is reached, the output is the compact encoding
\* if and only if some argument after the program name equals -c, wherever
\* it stands; otherwise it is the pretty encoding.
C7_CompactIffFlag ==
    (pc \in {"dump", "newline", "close"} \/ outcome = "ok") =>
        /\ compact = CompactRequested
        /\ writes # <<>> => writes[1] = Dump(obj, CompactRequested)

C7_Witness ==
    /\ outcome = "ok"
    /\ argv = <<ProgName, "-p", "a.json", "-c">>
    /\ fs["-c"].data = Expected(T_json, TRUE)
    /\ fs["-c"].data # Expected(T_json, FALSE)

\* C8: after a successful decode main() writes the encoded value, then one
\* newline as the last write before the output stream is closed, and the
\* process exits with status 0.
C8_NewlineThenExit ==
    /\ "out" \in closed =>
          /\ writes = <<Dump(obj, compact), <<"\n">>>>
          /\ Output = Dump(obj, compact) \o <<"\n">>
    /\ (pc = "exit" /\ obj # NoValue) =>
          (outcome = "ok" /\ status = 0 /\ "out" \in closed)
    /\ pc = "close" => writes[Len(writes)] = <<"\n">>

C8_Witness ==
    /\ pc = "exit" /\ outcome = "ok" /\ status = 0
    /\ ~compact
    /\ stdout = <<"{", "\n", "   ", "\"json\"", ":", " ", "\"obj\"", "\n", "}", "\n">>

\* C9: decoding a valid input, encoding it in pretty or in compact mode and
\* decoding that output again gives the first decoded value, object keys in
\* the same order.
C9_RoundTrip ==
    /\ obj # NoValue =>
          \A m \in BOOLEAN : Load(Dump(obj, m)).ok /\ Load(Dump(obj, m)).val = obj
    /\ outcome = "ok" => (Load(Output).ok /\ Load(Output).val = obj)

C9_Witness ==
    /\ outcome = "ok"
    /\ obj = Load(T_dup).val
    /\ Len(obj.kids) = 2 /\ obj.kids[1].k = "a" /\ obj.kids[1].v.s = "3"
    /\ Load(Output).val = obj

\* C10: nothing is written to the output stream before the input has been
\* decoded and the input stream closed; when decoding fails the output
\* stream has received nothing at exit.
C10_NoOutputBeforeDecode ==
    [][/\ writes' # writes => (obj # NoValue /\ "in" \in closed)
       /\ outcome' = "validation" =>
             (writes' = <<>> /\ stdout' = <<>> /\ Output' = <<>>)]_vars

C10_Witness ==
    /\ outcome = "validation"
    /\ ~outfile.std
    /\ fs0[infile.path].data # <<>>
    /\ writes = <<>> /\ Output = <<>>

====
